---- MODULE Spec2Model ----
(***************************************************************************)
(* Model of the quiz server's session registry (SessionManager) and of    *)
(* the per-session state machine (Session) of pkg/quiz-server.             *)
(*                                                                         *)
(* Processes:                                                              *)
(*   - the registry goroutine RunSessionManager, which takes one command   *)
(*     at a time from the unbuffered CommandChan, handles it and sends     *)
(*     the response on the command's ResponseChan;                         *)
(*   - the HTTP handlers, which send JoinSession and SubmitAnswer;         *)
(*   - one goroutine startQuiz per session that filled up.                 *)
(* A send on the unbuffered CommandChan is a rendezvous, so a handler that *)
(* is blocked sending is folded into the registry's receive step.          *)
(***************************************************************************)
EXTENDS Integers, Sequences, FiniteSets, TLC

\* ---------------------------------------------------------------- bounds
\* number of ids generateUniqueID hands out in a run
MaxSessionIds == 2
\* length of the loaded question bank
NumQuestions == 2
\* number of answer options of every question
OptionCount == 2

\* ------------------------------------------------------- configuration
maxSessions == 1
maxPlayersPerSession == 2

SessionIds == 1..MaxSessionIds
\* session ids a SubmitAnswer request may carry; 0 is never generated
RequestSessionIds == 0..MaxSessionIds
\* the players a JoinSession request may carry (two share a name)
JoinRequests ==
    { [Name |-> "Alice", ID |-> "a1"],
      [Name |-> "Bob",   ID |-> "b1"],
      [Name |-> "Alice", ID |-> "b1"] }
\* the player ids a SubmitAnswer request may carry; c1 never joins
PlayerIds == { r.ID : r \in JoinRequests } \cup {"c1"}
\* answer indices a SubmitAnswer request may carry, in and out of range
Answers == (0 - 1)..OptionCount

\* the question bank: CorrectAnswer of the question at 0-based index k
questions == [k \in 0..(NumQuestions - 1) |-> (k + 1) % OptionCount]
LenQuestions == NumQuestions

\* error values
NoError == "nil"
CapacityExceeded == "max sessions reached, could not create a session to join"
SessionFull == "Cannot add new player max players reached"
SessionNotFound == "session not found"
PlayerNotFound == "player does not exist"
AlreadyAnswered == "player has already voted"

VARIABLES
    \* SessionManager
    waitingRooms,     \* set of session ids (keys of the map)
    inProgress,       \* set of session ids (keys of the map)
    activeCount,
    nextId,           \* number of ids generated so far
    \* RunSessionManager loop
    mgrPc,            \* "recv", "sa_question", "sa_write", "reply"
    cmd,              \* the command being handled: its type, its session
                      \* id, its sender and, of a JoinSession, the player id
    response,         \* the response to send on cmd.ResponseChan
    saPlayer,         \* SubmitAnswer's local copy of the player
    \* Session, per session id
    players,          \* player id -> Player
    currentQuestion,
    cancelled,        \* s.cancel() was called
    mutex,            \* s.mutex: "free", or the goroutine that holds it,
                      \* "task" (startQuiz) or "registry"
    \* startQuiz goroutine, per session id
    pc,
    retPc,            \* where endSession returns to
    rangeTodo,        \* publishQuestion: keys the range has not visited
    rangePlayer,      \* publishQuestion: loop variable player
    scoreBoard,       \* publishScoreBoard: the map being published
    published,        \* the Publish calls made on the session's channel;
                      \* failed: the call returned an error that startQuiz
                      \* acts on (the other errors are only printed)
    \* process
    crashed,          \* "no", or the runtime error that killed the process
    \* history
    answered,         \* per session and player: the answers accepted
                      \* since the cursor took its current value
    saBefore,         \* score in the map when SubmitAnswer read the player
    saQuestion,       \* cursor when SubmitAnswer read the question
    saAnswer,         \* the answer SubmitAnswer compared
    joinLog,          \* the first maxPlayersPerSession JoinSession replies
    moves,            \* per session: the moves to the in-progress partition
    roomFreed,        \* an in-progress session was ended and no session
                      \* has been created since
    started,          \* per session: the "go s.startQuiz()" statements run
    ends              \* per session: the EndSession commands handled

mgrVars == <<waitingRooms, inProgress, activeCount, nextId>>
loopVars == <<mgrPc, cmd, response, saPlayer>>
sessVars == <<players, currentQuestion, cancelled, mutex>>
taskVars == <<pc, retPc, rangeTodo, rangePlayer, scoreBoard, published>>
saVars == <<saBefore, saQuestion, saAnswer>>
histVars == <<answered, saVars, joinLog, moves, roomFreed, started, ends>>
vars == <<mgrVars, loopVars, sessVars, taskVars, crashed, histVars>>

NoPlayer == [Name |-> "", ID |-> "", Score |-> 0, hasVoted |-> FALSE]
NoCmd == [CommandType |-> "none", player |-> "", SessionId |-> 0, from |-> 0]
NoResponse == [Error |-> NoError, SessionId |-> 0]
EmptyMap == [x \in {} |-> NoPlayer]
EmptyBoard == [x \in {} |-> 0]

Init ==
    /\ waitingRooms = {}
    /\ inProgress = {}
    /\ activeCount = 0
    /\ nextId = 0
    /\ mgrPc = "recv"
    /\ cmd = NoCmd
    /\ response = NoResponse
    /\ saPlayer = NoPlayer
    /\ players = [s \in SessionIds |-> EmptyMap]
    /\ currentQuestion = [s \in SessionIds |-> 0]
    /\ cancelled = [s \in SessionIds |-> FALSE]
    /\ mutex = [s \in SessionIds |-> "free"]
    /\ pc = [s \in SessionIds |-> "none"]
    /\ retPc = [s \in SessionIds |-> "none"]
    /\ rangeTodo = [s \in SessionIds |-> {}]
    /\ rangePlayer = [s \in SessionIds |-> NoPlayer]
    /\ scoreBoard = [s \in SessionIds |-> EmptyBoard]
    /\ published = [s \in SessionIds |-> <<>>]
    /\ crashed = "no"
    /\ answered = [s \in SessionIds |-> [p \in PlayerIds |-> 0]]
    /\ saBefore = 0
    /\ saQuestion = 0
    /\ saAnswer = 0
    /\ joinLog = <<>>
    /\ moves = [s \in SessionIds |-> 0]
    /\ roomFreed = FALSE
    /\ started = [s \in SessionIds |-> 0]
    /\ ends = [s \in SessionIds |-> 0]

\* ------------------------------------------------------------ Session

\* s.mutex.Lock() called by goroutine who returns: the mutex is free, or who
\* took it in an earlier step
Locks(s, who) == mutex[s] \in {"free", who}

\* s.mutex.Unlock(), deferred to the end of the accessor
Unlock(s) == mutex' = [mutex EXCEPT ![s] = "free"]

\* HasRoom with <= for <
HasRoomAtMost(m) == Cardinality(DOMAIN m) <= maxPlayersPerSession

\* AddPlayer: len(s.players) < s.maxPlayersPerSession
HasRoom(m) == Cardinality(DOMAIN m) < maxPlayersPerSession

\* AddPlayer: the player map after the call
AddPlayerMap(m, player) ==
    IF HasRoom(m)
    THEN (player.ID :> [Name |-> player.Name, ID |-> player.ID,
                        Score |-> 0, hasVoted |-> FALSE]) @@ m
    ELSE m

\* AddPlayer: the error returned
AddPlayerError(m) == IF HasRoom(m) THEN NoError ELSE SessionFull

\* StartsQuiz with the test made on every call, also on one that returns
\* SessionFull
StartsQuizWhenFull(m, player) ==
    Cardinality(DOMAIN AddPlayerMap(m, player)) = maxPlayersPerSession

\* StartsQuiz with the test for a full session dropped
StartsQuizOnEveryAdd(m, player) == HasRoom(m)

\* AddPlayer: whether the call runs "go s.startQuiz()"
StartsQuiz(m, player) ==
    /\ HasRoom(m)
    /\ Cardinality(DOMAIN AddPlayerMap(m, player)) = maxPlayersPerSession

\* IsCorrect with >= for ==
IsCorrectAtLeast(answer, q) == answer >= questions[q]

\* SubmitAnswer: answer == s.getCurrentQuestion().CorrectAnswer
IsCorrect(answer, q) == answer = questions[q]

\* publishScoreBoard: the score boards the range over the players builds
\* from board, visiting the players todo in any order; each visit does
\* scoreBoard[player.Name] = player.Score
RECURSIVE RangeBoards(_, _, _)
RangeBoards(m, todo, board) ==
    IF todo = {}
    THEN {board}
    ELSE UNION { RangeBoards(m, todo \ {p}, (m[p].Name :> m[p].Score) @@ board) :
                 p \in todo }

\* ScoreBoards keyed by player.ID instead of player.Name
ScoreBoardsById(m) == { [p \in DOMAIN m |-> m[p].Score] }

\* publishScoreBoard: the score boards it can build of the player map m
ScoreBoards(m) == RangeBoards(m, DOMAIN m, EmptyBoard)

\* one Publish call on the session's channel
Event(name, kind, q, board, failed) ==
    [name |-> name, kind |-> kind, question |-> q, board |-> board,
     failed |-> failed]

\* ----------------------------------------------------- SessionManager

\* CapacityReached with > for >=
CapacityReachedAbove == activeCount > maxSessions

\* createSession: s.activeCount >= s.maxSessions
CapacityReached == activeCount >= maxSessions

\* JoinsWaitingRoom passing over a waiting session that is full
JoinsWaitingRoomWithRoom ==
    \E id \in waitingRooms : HasRoom(players[id])

\* handleCommand, JoinSession: len(s.waitingRooms) > 0
JoinsWaitingRoom == waitingRooms # {}

\* RoutesAnswer looking the session up in both partitions
RoutesAnswerAnyPartition(id) == id \in inProgress \cup waitingRooms

\* handleCommand, SubmitAnswer: the lookup s.inProgress[cmd.SessionId]
RoutesAnswer(id) == id \in inProgress

Command(type, player, id, from) ==
    [CommandType |-> type, player |-> player, SessionId |-> id, from |-> from]

\* the registry has handled the command and goes on to send the response
Respond(c, err, id) ==
    /\ mgrPc' = "reply"
    /\ cmd' = c
    /\ response' = [Error |-> err, SessionId |-> id]

\* handleCommand, JoinSession: AddPlayer on the session chosen or created
JoinRoom(id, req) ==
    /\ Locks(id, "registry")
    /\ players' = [players EXCEPT ![id] = AddPlayerMap(@, req)]
    /\ pc' = IF StartsQuiz(players[id], req)
             THEN [pc EXCEPT ![id] = "move_send"] ELSE pc
    /\ started' = IF StartsQuiz(players[id], req)
                  THEN [started EXCEPT ![id] = @ + 1] ELSE started
    /\ Unlock(id)
    /\ Respond(Command("JoinSession", req.ID, 0, 0),
               AddPlayerError(players[id]), id)

\* handleCommand, case JoinSession, sent by ConnectToSessionHandler; the
\* run is followed while generateUniqueID has handed out at most limit ids
JoinSession(req, limit) ==
    /\ crashed = "no"
    /\ mgrPc = "recv"
    /\ IF JoinsWaitingRoom
       THEN /\ \E id \in waitingRooms : JoinRoom(id, req)
            /\ UNCHANGED <<mgrVars, roomFreed>>
       ELSE IF CapacityReached
       THEN /\ Respond(Command("JoinSession", req.ID, 0, 0),
                       CapacityExceeded, 0)
            /\ UNCHANGED <<mgrVars, players, pc, roomFreed, mutex, started>>
       ELSE /\ nextId < limit
            /\ nextId' = nextId + 1
            /\ waitingRooms' = waitingRooms \cup {nextId + 1}
            /\ activeCount' = activeCount + 1
            /\ JoinRoom(nextId + 1, req)
            /\ roomFreed' = FALSE
            /\ UNCHANGED inProgress
    /\ UNCHANGED <<saPlayer, currentQuestion, cancelled, retPc,
                   rangeTodo, rangePlayer, scoreBoard, published, crashed,
                   answered, saVars, joinLog, moves, ends>>

\* handleCommand, case SubmitAnswer, sent by SubmitAnswerHandler; runs
\* Session.SubmitAnswer up to its read of the player. The command's answer
\* is drawn where SubmitAnswer reads it, in SubmitAnswerQuestion.
SubmitAnswer(id, pid) ==
    LET c == Command("SubmitAnswer", "", id, 0)
    IN
    /\ crashed = "no"
    /\ mgrPc = "recv"
    /\ (RoutesAnswer(id) => Locks(id, "registry"))
    /\ IF ~RoutesAnswer(id)
       THEN /\ Respond(c, SessionNotFound, 0)
            /\ UNCHANGED <<saPlayer, saBefore>>
       ELSE IF pid \notin DOMAIN players[id]
       THEN /\ Respond(c, PlayerNotFound, 0)
            /\ UNCHANGED <<saPlayer, saBefore>>
       ELSE IF players[id][pid].hasVoted
       THEN /\ Respond(c, AlreadyAnswered, 0)
            /\ UNCHANGED <<saPlayer, saBefore>>
       ELSE /\ mgrPc' = "sa_question"
            /\ cmd' = c
            /\ saPlayer' = players[id][pid]
            /\ saBefore' = players[id][pid].Score
            /\ UNCHANGED response
    /\ UNCHANGED <<mgrVars, sessVars, taskVars, crashed, answered,
                   saQuestion, saAnswer, joinLog, moves, roomFreed,
                   started, ends>>

\* Session.SubmitAnswer: s.getCurrentQuestion(), the comparison and the
\* update of the local copy
SubmitAnswerQuestion(answer) ==
    /\ crashed = "no"
    /\ mgrPc = "sa_question"
    /\ Locks(cmd.SessionId, "registry")
    /\ Unlock(cmd.SessionId)
    /\ IF currentQuestion[cmd.SessionId] >= LenQuestions
       THEN /\ crashed' = "index out of range"
            /\ UNCHANGED <<mgrPc, saPlayer, saQuestion, saAnswer>>
       ELSE /\ saPlayer' =
                 [saPlayer EXCEPT
                    !.Score = IF IsCorrect(answer, currentQuestion[cmd.SessionId])
                              THEN @ + 1 ELSE @,
                    !.hasVoted = TRUE]
            /\ saQuestion' = currentQuestion[cmd.SessionId]
            /\ saAnswer' = answer
            /\ mgrPc' = "sa_write"
            /\ UNCHANGED crashed
    /\ UNCHANGED <<mgrVars, cmd, response, players, currentQuestion,
                   cancelled, taskVars, answered, saBefore, joinLog, moves,
                   roomFreed, started, ends>>

\* Session.SubmitAnswer: s.setPlayer(player); return nil
SubmitAnswerWrite ==
    /\ crashed = "no"
    /\ mgrPc = "sa_write"
    /\ Locks(cmd.SessionId, "registry")
    /\ players' = [players EXCEPT ![cmd.SessionId][saPlayer.ID] = saPlayer]
    /\ Unlock(cmd.SessionId)
    /\ answered' = [answered EXCEPT ![cmd.SessionId][saPlayer.ID] = @ + 1]
    /\ Respond(cmd, NoError, 0)
    /\ UNCHANGED <<mgrVars, saPlayer, currentQuestion, cancelled,
                   taskVars, crashed, saVars, joinLog, moves, roomFreed,
                   started, ends>>

\* HandleMove that copies the session to the in-progress partition and
\* leaves it in the waiting partition
HandleMoveKeepsWaiting(id, from) ==
    IF id \notin waitingRooms
    THEN /\ Respond(Command("MoveSessionToInProgress", "", id, from),
                    SessionNotFound, 0)
         /\ UNCHANGED <<mgrVars, moves>>
    ELSE /\ inProgress' = inProgress \cup {id}
         /\ Respond(Command("MoveSessionToInProgress", "", id, from),
                    NoError, 0)
         /\ moves' = [moves EXCEPT ![id] = @ + 1]
         /\ UNCHANGED <<waitingRooms, activeCount, nextId>>

\* handleCommand, case MoveSessionToInProgress, for the session id of the
\* command sent by from
HandleMove(id, from) ==
    IF id \notin waitingRooms
    THEN /\ Respond(Command("MoveSessionToInProgress", "", id, from),
                    SessionNotFound, 0)
         /\ UNCHANGED <<mgrVars, moves>>
    ELSE /\ inProgress' = inProgress \cup {id}
         /\ waitingRooms' = waitingRooms \ {id}
         /\ Respond(Command("MoveSessionToInProgress", "", id, from),
                    NoError, 0)
         /\ moves' = [moves EXCEPT ![id] = @ + 1]
         /\ UNCHANGED <<activeCount, nextId>>

\* MoveSessionToInProgress handled apart from the registry's loop, while a
\* reply may be waiting to be sent
MoveSessionToInProgressUnordered(s) ==
    /\ crashed = "no"
    /\ pc[s] = "move_send"
    /\ s \in waitingRooms
    /\ pc' = [pc EXCEPT ![s] = "grace"]
    /\ inProgress' = inProgress \cup {s}
    /\ waitingRooms' = waitingRooms \ {s}
    /\ moves' = [moves EXCEPT ![s] = @ + 1]
    /\ UNCHANGED <<activeCount, nextId, loopVars, sessVars, retPc, rangeTodo,
                   rangePlayer, scoreBoard, published, crashed, answered,
                   saVars, joinLog, roomFreed, started, ends>>

\* handleCommand, case MoveSessionToInProgress, sent by startQuiz
MoveSessionToInProgress(s) ==
    /\ crashed = "no"
    /\ mgrPc = "recv"
    /\ pc[s] = "move_send"
    /\ pc' = [pc EXCEPT ![s] = "move_wait"]
    /\ HandleMove(s, s)
    /\ UNCHANGED <<saPlayer, sessVars, retPc, rangeTodo, rangePlayer,
                   scoreBoard, published, crashed, answered, saVars, joinLog,
                   roomFreed, started, ends>>

\* handleCommand, case MoveSessionToInProgress, for a command that another
\* holder of the exported CommandChan sends with any session id
MoveCommand(id) ==
    /\ crashed = "no"
    /\ mgrPc = "recv"
    /\ HandleMove(id, 0)
    /\ UNCHANGED <<saPlayer, sessVars, taskVars, crashed, answered, saVars,
                   joinLog, roomFreed, started, ends>>

\* EndSession putting the session back into the waiting partition, as the
\* comment in its case says
EndSessionToWaiting(s) ==
    /\ crashed = "no"
    /\ mgrPc = "recv"
    /\ pc[s] = "end_send"
    /\ pc' = [pc EXCEPT ![s] = "end_wait"]
    /\ activeCount' = activeCount - 1
    /\ inProgress' = inProgress \ {s}
    /\ waitingRooms' = waitingRooms \cup {s}
    /\ Respond(Command("EndSession", "", s, s), NoError, 0)
    /\ roomFreed' = (roomFreed \/ s \in inProgress)
    /\ ends' = [ends EXCEPT ![s] = @ + 1]
    /\ UNCHANGED <<nextId, saPlayer, sessVars, retPc, rangeTodo,
                   rangePlayer, scoreBoard, published, crashed, answered,
                   saVars, joinLog, moves, started>>

\* handleCommand, case EndSession, sent by endSession
EndSession(s) ==
    /\ crashed = "no"
    /\ mgrPc = "recv"
    /\ pc[s] = "end_send"
    /\ pc' = [pc EXCEPT ![s] = "end_wait"]
    /\ activeCount' = activeCount - 1
    /\ inProgress' = inProgress \ {s}
    /\ Respond(Command("EndSession", "", s, s), NoError, 0)
    /\ roomFreed' = (roomFreed \/ s \in inProgress)
    /\ ends' = [ends EXCEPT ![s] = @ + 1]
    /\ UNCHANGED <<waitingRooms, nextId, saPlayer, sessVars, retPc, rangeTodo,
                   rangePlayer, scoreBoard, published, crashed, answered,
                   saVars, joinLog, moves, started>>

\* endSession is entered; it returns to ret
CallEndSession(s, ret) ==
    /\ pc' = [pc EXCEPT ![s] = "end_pub"]
    /\ retPc' = [retPc EXCEPT ![s] = ret]

\* RunSessionManager: cmd.ResponseChan <- response, and the sender's
\* receive from its responseChan
Reply ==
    /\ crashed = "no"
    /\ mgrPc = "reply"
    /\ mgrPc' = "recv"
    /\ cmd' = NoCmd
    /\ response' = NoResponse
    /\ saPlayer' = NoPlayer
    /\ saBefore' = 0
    /\ saQuestion' = 0
    /\ saAnswer' = 0
    /\ joinLog' = IF cmd.CommandType = "JoinSession"
                     /\ Len(joinLog) < maxPlayersPerSession
                  THEN Append(joinLog, [ID |-> cmd.player,
                                        SessionId |-> response.SessionId,
                                        Error |-> response.Error,
                                        created |-> nextId])
                  ELSE joinLog
    /\ IF cmd.from = 0
       THEN UNCHANGED <<pc, retPc, crashed>>
       ELSE IF pc[cmd.from] = "move_wait"
       THEN /\ IF response.Error # NoError
               THEN CallEndSession(cmd.from, "done")
               ELSE /\ pc' = [pc EXCEPT ![cmd.from] = "grace"]
                    /\ UNCHANGED retPc
            /\ UNCHANGED crashed
       ELSE IF response.Error # NoError
       THEN /\ crashed' = "error ending session"
            /\ UNCHANGED <<pc, retPc>>
       ELSE /\ pc' = [pc EXCEPT ![cmd.from] = "end_cancel"]
            /\ UNCHANGED <<retPc, crashed>>
    /\ UNCHANGED <<mgrVars, sessVars, rangeTodo, rangePlayer, scoreBoard,
                   published, answered, moves, roomFreed, started, ends>>

\* ------------------------------------------------- startQuiz goroutine

\* what a task step leaves alone besides the task's and the session's state
TaskFrame == UNCHANGED <<mgrVars, loopVars, crashed, histVars>>

Publish(s, e) == published' = [published EXCEPT ![s] = Append(@, e)]

\* startQuiz: the 500 ms sleep and the publish of the starting notice;
\* on an error endSession is called and startQuiz goes on
PublishStarting(s, ok) ==
    /\ crashed = "no"
    /\ pc[s] = "grace"
    /\ Publish(s, Event("quiz-update", "starting", 0 - 1, EmptyBoard, ~ok))
    /\ IF ok
       THEN /\ pc' = [pc EXCEPT ![s] = "leadin"]
            /\ UNCHANGED retPc
       ELSE CallEndSession(s, "leadin")
    /\ UNCHANGED <<sessVars, rangeTodo, rangePlayer, scoreBoard>>
    /\ TaskFrame

\* startQuiz: the 3 s sleep before the loop
LeadIn(s) ==
    /\ crashed = "no"
    /\ pc[s] = "leadin"
    /\ pc' = [pc EXCEPT ![s] = "loop"]
    /\ UNCHANGED <<sessVars, retPc, rangeTodo, rangePlayer, scoreBoard, published>>
    /\ TaskFrame

\* LoopTest leaving the loop after the first question
LoopTestAfterFirst(s) ==
    /\ crashed = "no"
    /\ pc[s] = "loop"
    /\ Locks(s, "task")
    /\ Unlock(s)
    /\ IF currentQuestion[s] >= 1
       THEN /\ pc' = [pc EXCEPT ![s] = "sb_build"]
            /\ UNCHANGED rangeTodo
       ELSE /\ pc' = [pc EXCEPT ![s] = "reset"]
            /\ rangeTodo' = [rangeTodo EXCEPT ![s] = DOMAIN players[s]]
    /\ UNCHANGED <<players, currentQuestion, cancelled, retPc, rangePlayer,
                   scoreBoard, published>>
    /\ TaskFrame

\* startQuiz: the loop's exit test; publishQuestion starts its range
LoopTest(s) ==
    /\ crashed = "no"
    /\ pc[s] = "loop"
    /\ Locks(s, "task")
    /\ Unlock(s)
    /\ IF currentQuestion[s] >= LenQuestions
       THEN /\ pc' = [pc EXCEPT ![s] = "sb_build"]
            /\ UNCHANGED rangeTodo
       ELSE /\ pc' = [pc EXCEPT ![s] = "reset"]
            /\ rangeTodo' = [rangeTodo EXCEPT ![s] = DOMAIN players[s]]
    /\ UNCHANGED <<players, currentQuestion, cancelled, retPc, rangePlayer,
                   scoreBoard, published>>
    /\ TaskFrame

\* publishQuestion: the range reads the next player and clears the copy's flag
ResetRead(s, p) ==
    /\ crashed = "no"
    /\ pc[s] = "reset"
    /\ p \in rangeTodo[s]
    /\ rangePlayer' = [rangePlayer EXCEPT ![s] = [players[s][p] EXCEPT !.hasVoted = FALSE]]
    /\ rangeTodo' = [rangeTodo EXCEPT ![s] = @ \ {p}]
    /\ pc' = [pc EXCEPT ![s] = "reset_write"]
    /\ UNCHANGED <<sessVars, retPc, scoreBoard, published>>
    /\ TaskFrame

\* publishQuestion: s.setPlayer(player)
ResetWrite(s) ==
    /\ crashed = "no"
    /\ pc[s] = "reset_write"
    /\ Locks(s, "task")
    /\ players' = [players EXCEPT ![s][rangePlayer[s].ID] = rangePlayer[s]]
    /\ Unlock(s)
    /\ rangePlayer' = [rangePlayer EXCEPT ![s] = NoPlayer]
    /\ pc' = [pc EXCEPT ![s] = "reset"]
    /\ UNCHANGED <<currentQuestion, cancelled, retPc, rangeTodo, scoreBoard, published>>
    /\ TaskFrame

\* publishQuestion: the whole range in one step, every player's flag
\* cleared; for the runs in which no other goroutine uses the player map
ResetAll(s) ==
    /\ crashed = "no"
    /\ pc[s] = "reset"
    /\ rangeTodo[s] # {}
    /\ Locks(s, "task")
    /\ players' = [players EXCEPT ![s] =
                       [p \in DOMAIN players[s] |->
                           [players[s][p] EXCEPT !.hasVoted = FALSE]]]
    /\ Unlock(s)
    /\ rangeTodo' = [rangeTodo EXCEPT ![s] = {}]
    /\ UNCHANGED <<currentQuestion, cancelled, pc, retPc, rangePlayer,
                   scoreBoard, published>>
    /\ TaskFrame

\* GetCurrentQuestion returning with the mutex still held
GetCurrentQuestionKeepsLock(s) ==
    /\ crashed = "no"
    /\ pc[s] = "reset"
    /\ rangeTodo[s] = {}
    /\ Locks(s, "task")
    /\ mutex' = [mutex EXCEPT ![s] = "task"]
    /\ pc' = [pc EXCEPT ![s] = "q_pub"]
    /\ UNCHANGED <<players, currentQuestion, cancelled, retPc, rangeTodo,
                   rangePlayer, scoreBoard, published>>
    /\ TaskFrame

\* publishQuestion: the range is over; s.getCurrentQuestion(), whose index
\* the loop's exit test has found in range
GetCurrentQuestion(s) ==
    /\ crashed = "no"
    /\ pc[s] = "reset"
    /\ rangeTodo[s] = {}
    /\ Locks(s, "task")
    /\ Unlock(s)
    /\ pc' = [pc EXCEPT ![s] = "q_pub"]
    /\ UNCHANGED <<players, currentQuestion, cancelled, retPc, rangeTodo,
                   rangePlayer, scoreBoard, published>>
    /\ TaskFrame

\* publishQuestion: the current question is published
PublishQuestion(s, ok) ==
    /\ crashed = "no"
    /\ pc[s] = "q_pub"
    /\ Publish(s, Event("new_question", "question", currentQuestion[s], EmptyBoard, ~ok))
    /\ IF ok
       THEN /\ pc' = [pc EXCEPT ![s] = "window"]
            /\ UNCHANGED retPc
       ELSE CallEndSession(s, "done")
    /\ UNCHANGED <<sessVars, rangeTodo, rangePlayer, scoreBoard>>
    /\ TaskFrame

\* MoveToNextQuestion advancing the cursor by 2
MoveToNextQuestionTwice(s) ==
    /\ crashed = "no"
    /\ pc[s] = "window"
    /\ Locks(s, "task")
    /\ currentQuestion' = [currentQuestion EXCEPT ![s] = @ + 2]
    /\ Unlock(s)
    /\ pc' = [pc EXCEPT ![s] = "loop"]
    /\ answered' = [answered EXCEPT ![s] = [p \in PlayerIds |-> 0]]
    /\ UNCHANGED <<players, cancelled, retPc, rangeTodo, rangePlayer, scoreBoard, published>>
    /\ UNCHANGED <<mgrVars, loopVars, crashed, saVars, joinLog, moves, roomFreed,
                   started, ends>>

\* startQuiz: the question's time is over; s.moveToNextQuestion()
MoveToNextQuestion(s) ==
    /\ crashed = "no"
    /\ pc[s] = "window"
    /\ Locks(s, "task")
    /\ currentQuestion' = [currentQuestion EXCEPT ![s] = @ + 1]
    /\ Unlock(s)
    /\ pc' = [pc EXCEPT ![s] = "loop"]
    /\ answered' = [answered EXCEPT ![s] = [p \in PlayerIds |-> 0]]
    /\ UNCHANGED <<players, cancelled, retPc, rangeTodo, rangePlayer, scoreBoard, published>>
    /\ UNCHANGED <<mgrVars, loopVars, crashed, saVars, joinLog, moves, roomFreed,
                   started, ends>>

\* publishScoreBoard: the range over the players builds the score board
BuildScoreBoard(s) ==
    /\ crashed = "no"
    /\ pc[s] = "sb_build"
    /\ Locks(s, "task")
    /\ Unlock(s)
    /\ \E f \in ScoreBoards(players[s]) :
          scoreBoard' = [scoreBoard EXCEPT ![s] = f]
    /\ pc' = [pc EXCEPT ![s] = "sb_pub"]
    /\ UNCHANGED <<players, currentQuestion, cancelled, retPc, rangeTodo,
                   rangePlayer, published>>
    /\ TaskFrame

\* publishScoreBoard: the publish, whose error is only printed; then
\* startQuiz calls endSession
PublishScoreBoard(s) ==
    /\ crashed = "no"
    /\ pc[s] = "sb_pub"
    /\ Publish(s, Event("quiz-update", "scoreboard", 0 - 1, scoreBoard[s], FALSE))
    /\ scoreBoard' = [scoreBoard EXCEPT ![s] = EmptyBoard]
    /\ CallEndSession(s, "done")
    /\ UNCHANGED <<sessVars, rangeTodo, rangePlayer>>
    /\ TaskFrame

\* endSession: the publish of quiz-end, whose error is only printed
PublishEnd(s) ==
    /\ crashed = "no"
    /\ pc[s] = "end_pub"
    /\ Publish(s, Event("quiz-end", "end", 0 - 1, EmptyBoard, FALSE))
    /\ pc' = [pc EXCEPT ![s] = "end_send"]
    /\ UNCHANGED <<sessVars, retPc, rangeTodo, rangePlayer, scoreBoard>>
    /\ TaskFrame

\* endSession: s.cancel(), and the return to the caller. When startQuiz
\* returns, the registry has dropped the session and nothing refers to it
\* any more: its record is released.
Cancel(s) ==
    /\ crashed = "no"
    /\ pc[s] = "end_cancel"
    /\ pc' = [pc EXCEPT ![s] = retPc[s]]
    /\ retPc' = [retPc EXCEPT ![s] = "none"]
    /\ IF retPc[s] = "done"
       THEN /\ players' = [players EXCEPT ![s] = EmptyMap]
            /\ currentQuestion' = [currentQuestion EXCEPT ![s] = 0]
            /\ cancelled' = [cancelled EXCEPT ![s] = FALSE]
            /\ published' = [published EXCEPT ![s] = <<>>]
            /\ answered' = [answered EXCEPT ![s] = [p \in PlayerIds |-> 0]]
       ELSE /\ cancelled' = [cancelled EXCEPT ![s] = TRUE]
            /\ UNCHANGED <<players, currentQuestion, published, answered>>
    /\ UNCHANGED <<mutex, rangeTodo, rangePlayer, scoreBoard>>
    /\ UNCHANGED <<mgrVars, loopVars, crashed, saVars, joinLog, moves, roomFreed,
                   started, ends>>

\* the runtime's check for an unsynchronised map access: SubmitAnswer
\* reads s.getPlayers()[id] and publishQuestion and publishScoreBoard range
\* over s.getPlayers() outside the mutex, while the other goroutine is in
\* setPlayer
ConcurrentMapAccess(s) ==
    /\ crashed = "no"
    /\ \/ /\ mgrPc = "recv"
          /\ RoutesAnswer(s)
          /\ pc[s] = "reset_write"
       \/ /\ mgrPc = "sa_write"
          /\ cmd.SessionId = s
          /\ \/ pc[s] = "reset" /\ rangeTodo[s] # {}
             \/ pc[s] = "sb_build"
    /\ crashed' = "concurrent map access"
    /\ UNCHANGED <<mgrVars, loopVars, sessVars, taskVars, histVars>>

\* startQuiz is in an accessor of the session and s.mutex.Lock() returns:
\* getCurrentQuestionCounter (the loop's test), setPlayer and
\* getCurrentQuestion (publishQuestion), moveToNextQuestion, getPlayers
\* (publishScoreBoard)
LockTask(s) ==
    /\ crashed = "no"
    /\ \/ pc[s] \in {"loop", "reset_write", "window", "sb_build"}
       \/ pc[s] = "reset" /\ rangeTodo[s] = {}
    /\ mutex[s] = "free"
    /\ mutex' = [mutex EXCEPT ![s] = "task"]
    /\ UNCHANGED <<mgrVars, loopVars, players, currentQuestion, cancelled,
                   taskVars, crashed, histVars>>

\* Session.SubmitAnswer, run by the registry, is in getCurrentQuestion or in
\* setPlayer and s.mutex.Lock() returns
LockRegistry ==
    /\ crashed = "no"
    /\ mgrPc \in {"sa_question", "sa_write"}
    /\ mutex[cmd.SessionId] = "free"
    /\ mutex' = [mutex EXCEPT ![cmd.SessionId] = "registry"]
    /\ UNCHANGED <<mgrVars, loopVars, players, currentQuestion, cancelled,
                   taskVars, crashed, histVars>>

\* the steps of the startQuiz goroutine of session s
StartQuizStep(s) ==
    \/ \E ok \in BOOLEAN : PublishStarting(s, ok)
    \/ LeadIn(s)
    \/ LoopTest(s)
    \/ \E p \in PlayerIds : ResetRead(s, p)
    \/ ResetWrite(s)
    \/ GetCurrentQuestion(s)
    \/ \E ok \in BOOLEAN : PublishQuestion(s, ok)
    \/ MoveToNextQuestion(s)
    \/ BuildScoreBoard(s)
    \/ PublishScoreBoard(s)
    \/ PublishEnd(s)
    \/ Cancel(s)

\* the steps of the startQuiz goroutine of session s where no SubmitAnswer
\* runs beside it: publishQuestion's range is one step
StartQuizStepAlone(s) ==
    \/ \E ok \in BOOLEAN : PublishStarting(s, ok)
    \/ LeadIn(s)
    \/ LoopTest(s)
    \/ ResetAll(s)
    \/ GetCurrentQuestion(s)
    \/ \E ok \in BOOLEAN : PublishQuestion(s, ok)
    \/ MoveToNextQuestion(s)
    \/ BuildScoreBoard(s)
    \/ PublishScoreBoard(s)
    \/ PublishEnd(s)
    \/ Cancel(s)

\* Spec follows the registry until it has created maxSessions sessions,
\* with every SubmitAnswer request and every interleaving of
\* Session.SubmitAnswer with the session's startQuiz goroutine.
Next ==
    \/ \E req \in JoinRequests : JoinSession(req, maxSessions)
    \/ \E id \in RequestSessionIds, pid \in PlayerIds : SubmitAnswer(id, pid)
    \/ \E answer \in Answers : SubmitAnswerQuestion(answer)
    \/ SubmitAnswerWrite
    \/ \E s \in SessionIds : MoveSessionToInProgress(s)
    \/ \E s \in SessionIds : EndSession(s)
    \/ Reply
    \/ \E s \in SessionIds : StartQuizStep(s)
    \/ \E s \in SessionIds : ConcurrentMapAccess(s)

Spec == Init /\ [][Next]_vars

\* SpecRegistry follows the registry through MaxSessionIds sessions, which
\* may be alive at the same time, while no SubmitAnswer request arrives and
\* the players who join have different names.
NextRegistry ==
    \/ \E req \in { r \in JoinRequests : r.Name # "Alice" \/ r.ID = "a1" } :
          JoinSession(req, MaxSessionIds)
    \/ \E s \in SessionIds : MoveSessionToInProgress(s)
    \/ \E s \in SessionIds : EndSession(s)
    \/ Reply
    \/ \E s \in SessionIds : StartQuizStepAlone(s)

SpecRegistry == Init /\ [][NextRegistry]_vars

\* SpecCommands follows the registry until it has created maxSessions
\* sessions, with MoveSessionToInProgress commands that arrive on the
\* exported CommandChan from outside the sessions, with any id, and without
\* SubmitAnswer requests.
NextCommands ==
    \/ \E req \in { r \in JoinRequests : r.Name # "Alice" \/ r.ID = "a1" } :
          JoinSession(req, maxSessions)
    \/ \E id \in RequestSessionIds : MoveCommand(id)
    \/ \E s \in SessionIds : MoveSessionToInProgress(s)
    \/ \E s \in SessionIds : EndSession(s)
    \/ Reply
    \/ \E s \in SessionIds : StartQuizStepAlone(s)

SpecCommands == Init /\ [][NextCommands]_vars

\* SpecMutex is Spec with the acquisition of a session's mutex as a step of
\* its own, so that a goroutine is seen inside an accessor and the other
\* goroutine waits for the mutex.
NextMutex ==
    \/ \E req \in JoinRequests : JoinSession(req, maxSessions)
    \/ \E id \in RequestSessionIds, pid \in PlayerIds : SubmitAnswer(id, pid)
    \/ \E answer \in Answers : SubmitAnswerQuestion(answer)
    \/ SubmitAnswerWrite
    \/ \E s \in SessionIds : MoveSessionToInProgress(s)
    \/ \E s \in SessionIds : EndSession(s)
    \/ Reply
    \/ \E s \in SessionIds : StartQuizStep(s)
    \/ \E s \in SessionIds : ConcurrentMapAccess(s)
    \/ \E s \in SessionIds : LockTask(s)
    \/ LockRegistry

SpecMutex == Init /\ [][NextMutex]_vars

\* ------------------------------------------------------------- claims

\* the ids of the players of the logged JoinSession calls
JoinIds == { joinLog[i].ID : i \in 1..Len(joinLog) }

\* the first maxPlayersPerSession JoinSession calls are answered and carry
\* pairwise distinct player ids
FirstJoinsDistinct ==
    /\ Len(joinLog) = maxPlayersPerSession
    /\ Cardinality(JoinIds) = maxPlayersPerSession

\* C1: from the empty registry, once maxPlayersPerSession JoinSession calls
\* with pairwise distinct player ids are answered, each was answered
\* without error and with the same session id, one session had been created
\* by then, the session's goroutine is started, the session is moved to the
\* in-progress partition exactly once (not yet while its move request is
\* pending) and, while it lives, its player map holds exactly those ids.
C1_FullSessionMovesOnce ==
    FirstJoinsDistinct =>
        LET sid == joinLog[1].SessionId
        IN /\ \A i \in 1..Len(joinLog) :
                 /\ joinLog[i].Error = NoError
                 /\ joinLog[i].SessionId = sid
                 /\ joinLog[i].created = 1
           /\ sid \in SessionIds
           /\ pc[sid] # "none"
           /\ moves[sid] = (IF pc[sid] = "move_send" THEN 0 ELSE 1)
           /\ (pc[sid] = "move_send" => sid \in waitingRooms /\ sid \notin inProgress)
           /\ (pc[sid] = "grace" => sid \in inProgress /\ sid \notin waitingRooms)
           /\ (pc[sid] # "done" => DOMAIN players[sid] = JoinIds)

C1_Witness ==
    /\ FirstJoinsDistinct
    /\ joinLog[1].SessionId \in inProgress
    /\ moves[joinLog[1].SessionId] = 1

\* the registry handles a JoinSession command in this step
JoinHandled ==
    mgrPc = "recv" /\ mgrPc' = "reply" /\ cmd'.CommandType = "JoinSession"

\* C4: a JoinSession handled while the waiting partition is empty and
\* activeCount equals maxSessions is answered with CapacityExceeded, creates
\* no session and leaves the partitions and activeCount unchanged; the first
\* JoinSession handled with an empty waiting partition after an EndSession
\* of an in-progress session creates a session and is answered with its id.
C4_Capacity ==
    [][ (JoinHandled /\ waitingRooms = {}) =>
           /\ (activeCount = maxSessions =>
                  /\ response'.Error = CapacityExceeded
                  /\ UNCHANGED <<waitingRooms, inProgress, activeCount, nextId, players>>)
           /\ (roomFreed =>
                  /\ response'.Error = NoError
                  /\ response'.SessionId = nextId + 1
                  /\ nextId' = nextId + 1
                  /\ waitingRooms' = {nextId + 1}
                  /\ activeCount' = activeCount + 1
                  /\ UNCHANGED inProgress) ]_vars

C4_Witness ==
    /\ mgrPc = "reply"
    /\ cmd.CommandType = "JoinSession"
    /\ response.Error = CapacityExceeded
    /\ nextId >= 2

\* C5: whenever the registry is between two commands, activeCount is the
\* number of sessions in the waiting partition plus the number of sessions
\* in the in-progress partition.
C5_ActiveCountMatchesPartitions ==
    mgrPc = "recv" =>
        activeCount = Cardinality(waitingRooms) + Cardinality(inProgress)

\* the lifecycle phase of the session with id s
Phase(s) ==
    IF s \notin 1..nextId THEN "NotCreated"
    ELSE IF s \in waitingRooms THEN "Waiting"
    ELSE IF s \in inProgress THEN "InProgress"
    ELSE "Ended"

C2_OneAnswerPerQuestion ==
    /\ \A s \in SessionIds : \A p \in PlayerIds : answered[s][p] <= 1
    /\ (mgrPc \in {"sa_question", "sa_write"} =>
            answered[cmd.SessionId][saPlayer.ID] = 0)

\* the registry's SubmitAnswer returns nil in this step
AnswerAccepted == mgrPc = "sa_write" /\ mgrPc' = "reply"

\* the registry's SubmitAnswer returns an error in this step
AnswerRejected ==
    mgrPc = "recv" /\ mgrPc' = "reply" /\ cmd'.CommandType = "SubmitAnswer"

\* C3: an accepted SubmitAnswer leaves the player with the score the call
\* found plus 1 if the answer is the CorrectAnswer of the question at the
\* cursor the call read, and with the score the call found otherwise, so
\* for every answer outside 0..OptionCount-1; it changes no other player;
\* a rejected SubmitAnswer changes no player.
C3_ScoreCorrect ==
    [][ /\ AnswerAccepted =>
              LET sid == cmd.SessionId
                  pid == saPlayer.ID
              IN /\ response'.Error = NoError
                 /\ players'[sid][pid].Score =
                        saBefore + (IF saAnswer = questions[saQuestion] THEN 1 ELSE 0)
                 /\ (saAnswer \notin 0..(OptionCount - 1) =>
                        players'[sid][pid].Score = saBefore)
                 /\ \A q \in DOMAIN players[sid] \ {pid} :
                        players'[sid][q] = players[sid][q]
        /\ AnswerRejected =>
              /\ response'.Error # NoError
              /\ players' = players ]_vars

C3_Witness ==
    /\ mgrPc = "reply"
    /\ cmd.CommandType = "SubmitAnswer"
    /\ response.Error = NoError
    /\ saAnswer = questions[saQuestion]
    /\ players[cmd.SessionId][saPlayer.ID].Score = saBefore + 1
    /\ saBefore >= 1

\* C6: a SubmitAnswer whose session id is not in the in-progress partition
\* when the registry handles it is answered with SessionNotFound in that
\* step, and no player of any session changes.
C6_SessionNotFound ==
    [][ ( /\ mgrPc = "recv"
          /\ cmd'.CommandType = "SubmitAnswer"
          /\ cmd'.SessionId \notin inProgress ) =>
            /\ mgrPc' = "reply"
            /\ response'.Error = SessionNotFound
            /\ players' = players ]_vars

C6_Witness ==
    /\ mgrPc = "reply"
    /\ cmd.CommandType = "SubmitAnswer"
    /\ response.Error = SessionNotFound
    /\ Phase(cmd.SessionId) = "Ended"

\* the last Publish call on the channel of session s
LastPublished(s) == published[s][Len(published[s])]

\* C7: publishScoreBoard builds the map from every player's name to the
\* score of a player of that name in the player map, publishes it in one
\* event named quiz-update, and leaves the player map as it is.
C7_ScoreBoardPayload ==
    [][ \A s \in SessionIds :
          /\ (pc[s] = "sb_build" /\ pc'[s] = "sb_pub") =>
                /\ DOMAIN scoreBoard'[s] =
                       { players[s][p].Name : p \in DOMAIN players[s] }
                /\ \A n \in DOMAIN scoreBoard'[s] :
                       \E p \in DOMAIN players[s] :
                           /\ players[s][p].Name = n
                           /\ players[s][p].Score = scoreBoard'[s][n]
                /\ UNCHANGED <<players, published>>
          /\ (pc[s] = "sb_pub" /\ pc'[s] # "sb_pub") =>
                /\ Len(published'[s]) = Len(published[s]) + 1
                /\ SubSeq(published'[s], 1, Len(published[s])) = published[s]
                /\ LastPublished(s)'.name = "quiz-update"
                /\ LastPublished(s)'.board = scoreBoard[s]
                /\ UNCHANGED players ]_vars

C7_Witness ==
    \E s \in SessionIds :
        /\ pc[s] = "end_pub"
        /\ LastPublished(s).kind = "scoreboard"
        /\ \E p, q \in DOMAIN players[s] :
              /\ players[s][p].Name = players[s][q].Name
              /\ players[s][p].Score > players[s][q].Score
        /\ \E n \in DOMAIN LastPublished(s).board : LastPublished(s).board[n] > 0

\* the positions of the events of a kind among the Publish calls of s
Positions(s, kind) ==
    { i \in 1..Len(published[s]) : published[s][i].kind = kind }

\* C8: a session publishes at most one score board, only when its cursor
\* has reached the number of questions, and after all its questions.
C8_ScoreBoardOnceAtEnd ==
    \A s \in SessionIds :
        /\ Cardinality(Positions(s, "scoreboard")) <= 1
        /\ \A i \in Positions(s, "scoreboard") :
              /\ currentQuestion[s] >= LenQuestions
              /\ \A j \in Positions(s, "question") : j < i

C8_Witness ==
    \E s \in SessionIds :
        /\ Positions(s, "scoreboard") # {}
        /\ Cardinality(Positions(s, "question")) = LenQuestions
        /\ \E p \in DOMAIN players[s] : players[s][p].Score > 0

\* C10: after a Publish call of the starting notice or of a question has
\* failed, the session publishes no new_question event.
C10_NoQuestionAfterFailure ==
    \A s \in SessionIds :
        \A i \in 1..Len(published[s]) :
            published[s][i].failed =>
                \A j \in (i + 1)..Len(published[s]) :
                    published[s][j].kind # "question"

\* C11: the waiting and the in-progress partition together never hold more
\* than maxSessions sessions, and activeCount stays within 0..maxSessions.
C11_ActiveCountBounded ==
    /\ Cardinality(waitingRooms) + Cardinality(inProgress) <= maxSessions
    /\ activeCount \in 0..maxSessions

\* C12: every player's score is at least 0, and no step lowers the score of
\* a player of a session.
C12_ScoreNeverDecreases ==
    /\ [](\A s \in SessionIds : \A p \in DOMAIN players[s] :
             players[s][p].Score >= 0)
    /\ [][ \A s \in SessionIds :
             \A p \in DOMAIN players[s] \cap DOMAIN players'[s] :
                 players'[s][p].Score >= players[s][p].Score ]_vars

\* the registry handles a MoveSessionToInProgress command in this step
MoveHandled ==
    /\ mgrPc = "recv"
    /\ mgrPc' = "reply"
    /\ cmd'.CommandType = "MoveSessionToInProgress"

\* C13: a MoveSessionToInProgress command whose id is in the waiting
\* partition takes the id out of it, puts it into the in-progress partition
\* with the session as it is, leaves activeCount unchanged and is answered
\* without error; one whose id is not in the waiting partition is answered
\* with SessionNotFound and leaves both partitions and activeCount unchanged.
C13_MoveToInProgress ==
    [][ MoveHandled =>
          IF cmd'.SessionId \in waitingRooms
          THEN /\ waitingRooms' = waitingRooms \ {cmd'.SessionId}
               /\ inProgress' = inProgress \cup {cmd'.SessionId}
               /\ response'.Error = NoError
               /\ UNCHANGED <<activeCount, players, currentQuestion>>
          ELSE /\ response'.Error = SessionNotFound
               /\ UNCHANGED <<waitingRooms, inProgress, activeCount>> ]_vars

C13_Witness ==
    /\ mgrPc = "reply"
    /\ cmd.CommandType = "MoveSessionToInProgress"
    /\ response.Error = SessionNotFound
    /\ cmd.SessionId \in inProgress
    /\ moves[cmd.SessionId] = 1

\* the registry is about to send the reply of the JoinSession whose
\* AddPlayer filled session s
FillingJoinReply(s) ==
    /\ mgrPc = "reply"
    /\ cmd.CommandType = "JoinSession"
    /\ response.Error = NoError
    /\ response.SessionId = s
    /\ Cardinality(DOMAIN players[s]) = maxPlayersPerSession

\* C14: while the reply of the JoinSession that filled a session is being
\* handed to its caller, the reply carries the session id without error, the
\* registry has not received the session's MoveSessionToInProgress command
\* and the session is in the waiting partition.
C14_ReplyBeforeMove ==
    \A s \in SessionIds :
        FillingJoinReply(s) =>
            /\ s \in waitingRooms
            /\ s \notin inProgress
            /\ pc[s] = "move_send"
            /\ moves[s] = 0

C14_Witness ==
    \E s \in SessionIds : FillingJoinReply(s) /\ started[s] = 1 /\ nextId = 2

\* C15: the registry handles at most one EndSession command of a session,
\* the session is in the in-progress partition when it does, and activeCount
\* goes down by one.
C15_OneEndSessionPerSession ==
    /\ [](\A s \in SessionIds : ends[s] <= 1)
    /\ [][ \A s \in SessionIds :
             ends'[s] # ends[s] =>
                 /\ s \in inProgress
                 /\ activeCount' = activeCount - 1 ]_vars

\* C16: startQuiz is started at most once per session, and it has been
\* started exactly if the session holds maxPlayersPerSession players.
C16_TaskStartedOnce ==
    \A s \in SessionIds :
        /\ started[s] <= 1
        /\ (pc[s] # "done" =>
               (started[s] = 1 <=>
                    Cardinality(DOMAIN players[s]) = maxPlayersPerSession))
        /\ (started[s] = 0 <=> pc[s] = "none")

C16_Witness ==
    /\ mgrPc = "reply"
    /\ cmd.CommandType = "JoinSession"
    /\ response.Error = SessionFull
    /\ started[response.SessionId] = 1
    /\ \E i \in 1..Len(joinLog) : joinLog[i].ID = cmd.player

\* the new_question events among the Publish calls of session s
QuestionEvents(s) == SelectSeq(published[s], LAMBDA e : e.kind = "question")

\* no Publish call of session s has failed
NoPublishFailure(s) == \A i \in 1..Len(published[s]) : ~published[s][i].failed

\* C17: the cursor is 0 until the loop starts and always within
\* 0..len(questions); it changes only when startQuiz, after a question's
\* window, advances it by 1 (and when the record of a finished session is
\* released); while no Publish call of the session has failed, the i-th
\* new_question event carries question i-1, the questions before the cursor
\* are published, and all are published when the score board is.
C17_Cursor ==
    /\ [](\A s \in SessionIds :
             /\ currentQuestion[s] \in 0..LenQuestions
             /\ (pc[s] \in {"none", "move_send", "move_wait", "grace", "leadin"}
                    => currentQuestion[s] = 0)
             /\ (NoPublishFailure(s) =>
                    /\ \A i \in 1..Len(QuestionEvents(s)) :
                           QuestionEvents(s)[i].question = i - 1
                    /\ Len(QuestionEvents(s)) =
                           currentQuestion[s] + (IF pc[s] = "window" THEN 1 ELSE 0)
                    /\ (Positions(s, "scoreboard") # {} =>
                           Len(QuestionEvents(s)) = LenQuestions)))
    /\ [][ \A s \in SessionIds :
             currentQuestion'[s] # currentQuestion[s] =>
                 \/ /\ pc[s] = "window"
                    /\ currentQuestion'[s] = currentQuestion[s] + 1
                 \/ pc[s] = "end_cancel" /\ pc'[s] = "done" ]_vars

C17_Witness ==
    \E s \in SessionIds :
        /\ pc[s] = "end_pub"
        /\ NoPublishFailure(s)
        /\ Positions(s, "scoreboard") # {}
        /\ Len(QuestionEvents(s)) = LenQuestions
        /\ currentQuestion[s] = LenQuestions

\* C18: a session's player map holds at most maxPlayersPerSession entries;
\* the AddPlayer of a JoinSession on a session that holds
\* maxPlayersPerSession players returns SessionFull and changes no player
\* map; on a session below that it returns no error, stores the player under
\* its id with score 0 and without the answered flag, and changes no other
\* entry of any player map.
C18_PlayerMapBounded ==
    /\ [](\A s \in SessionIds :
             Cardinality(DOMAIN players[s]) \in 0..maxPlayersPerSession)
    /\ [][ (JoinHandled /\ response'.Error # CapacityExceeded) =>
             IF Cardinality(DOMAIN players[response'.SessionId])
                    = maxPlayersPerSession
             THEN /\ response'.Error = SessionFull
                  /\ players' = players
             ELSE /\ response'.Error = NoError
                  /\ DOMAIN players'[response'.SessionId] =
                         DOMAIN players[response'.SessionId] \cup {cmd'.player}
                  /\ players'[response'.SessionId][cmd'.player].ID = cmd'.player
                  /\ players'[response'.SessionId][cmd'.player].Score = 0
                  /\ ~players'[response'.SessionId][cmd'.player].hasVoted
                  /\ \A q \in DOMAIN players[response'.SessionId] \ {cmd'.player} :
                         players'[response'.SessionId][q] =
                             players[response'.SessionId][q]
                  /\ \A t \in SessionIds \ {response'.SessionId} :
                         players'[t] = players[t] ]_vars

C18_Witness ==
    /\ mgrPc = "reply"
    /\ cmd.CommandType = "JoinSession"
    /\ response.Error = SessionFull
    /\ Cardinality(DOMAIN players[response.SessionId]) = maxPlayersPerSession
    /\ response.SessionId \in waitingRooms
    /\ \E p, q \in DOMAIN players[response.SessionId] :
          p # q /\ players[response.SessionId][p].Name = players[response.SessionId][q].Name

\* C19: when startQuiz has left the loop with the questions exhausted and
\* endSession has published quiz-end, the last two Publish calls are the
\* score board and quiz-end, in this order; the EndSession command and its
\* reply come before the cancellation; and once the registry has received an
\* EndSession command of a session, nothing more is published on the
\* session's channel.
C19_TeardownOrder ==
    /\ [](\A s \in SessionIds :
             ( /\ pc[s] \in {"end_send", "end_wait", "end_cancel"}
               /\ retPc[s] = "done"
               /\ currentQuestion[s] >= LenQuestions ) =>
                 /\ Len(published[s]) >= 2
                 /\ published[s][Len(published[s]) - 1].kind = "scoreboard"
                 /\ published[s][Len(published[s])].kind = "end"
                 /\ ~cancelled[s]
                 /\ (pc[s] = "end_send" => ends[s] = 0)
                 /\ (pc[s] = "end_cancel" => ends[s] = 1))
    /\ [][ \A s \in SessionIds :
             (ends[s] >= 1 /\ pc'[s] # "done") =>
                 published'[s] = published[s] ]_vars

\* the task of session s is inside a Publish call or about to enter it, is
\* blocked sending a command to the registry, or waits for the reply
TaskBlocked(s) ==
    pc[s] \in {"grace", "q_pub", "sb_pub", "end_pub",
               "move_send", "end_send", "move_wait", "end_wait"}

\* C20: a session's mutex is not held by its startQuiz goroutine while that
\* goroutine is in a Publish call, sends a command to the registry or waits
\* for the reply, and no session's mutex is held by the registry goroutine
\* while it sends a reply.
C20_NoLockAcrossBlocking ==
    /\ \A s \in SessionIds : TaskBlocked(s) => mutex[s] # "task"
    /\ (mgrPc = "reply" => \A s \in SessionIds : mutex[s] # "registry")

C20_Witness ==
    \E s \in SessionIds :
        /\ pc[s] = "q_pub"
        /\ mutex[s] = "registry"
        /\ mgrPc = "sa_write"
        /\ currentQuestion[s] = 1

\* a command is with the registry or on its way: the registry has received
\* one and not sent its reply, or a startQuiz goroutine is sending one or
\* waiting for its reply
CommandPending ==
    \/ mgrPc # "recv"
    \/ \E s \in SessionIds :
          pc[s] \in {"move_send", "move_wait", "end_send", "end_wait"}

\* C21, stated for finite runs: the registry holds at most one command and
\* has its reply ready before it receives the next, the startQuiz goroutine
\* whose command it holds waits for that reply, and the process never stops
\* (no panic, no fatal error) while a command is unanswered.
C21_EveryCommandReplied ==
    /\ (mgrPc = "recv" <=> cmd = NoCmd)
    /\ (cmd.from # 0 => pc[cmd.from] \in {"move_wait", "end_wait"})
    /\ \A s \in SessionIds :
          pc[s] \in {"move_wait", "end_wait"} => cmd.from = s
    /\ (CommandPending => crashed = "no")

\* C22, stated for finite runs: the process never stops while a session
\* that was filled is still to be moved to the in-progress partition or
\* still in it.
C22_FullSessionsEnd ==
    crashed # "no" =>
        \A s \in SessionIds :
            started[s] >= 1 => (moves[s] >= 1 /\ s \notin inProgress)

\* the registry's SubmitAnswer reads the current question in this step
AnswerScored == mgrPc = "sa_question" /\ mgrPc' = "sa_write"

\* voting for the question at the cursor of session s is open: publishQuestion
\* has started its flag reset and the cursor has not advanced since
VotingOpen(s) == pc[s] \in {"reset", "reset_write", "q_pub", "window"}

\* C23: a SubmitAnswer is scored against the question at the cursor only
\* after the flag reset for that question has begun and before the cursor
\* advances.
C23_VotingOpensAtReset ==
    [][ AnswerScored => VotingOpen(cmd.SessionId) ]_vars

\* C24: whenever a routed SubmitAnswer is about to read the current
\* question, the session's cursor is below the number of questions, and the
\* read of questions[currentQuestion] never fails with an index out of range.
C24_CursorInBounds ==
    /\ crashed # "index out of range"
    /\ (mgrPc = "sa_question" =>
           currentQuestion[cmd.SessionId] < LenQuestions)

\* C25: the waiting partition holds at most one session, and a JoinSession
\* handled while a session holding maxPlayersPerSession players is in the
\* waiting partition is answered with SessionFull and creates no session,
\* whatever activeCount is.
C25_OneWaitingRoom ==
    /\ [](Cardinality(waitingRooms) <= 1)
    /\ [][ ( /\ JoinHandled
             /\ \E s \in waitingRooms :
                   Cardinality(DOMAIN players[s]) = maxPlayersPerSession ) =>
               /\ response'.Error = SessionFull
               /\ UNCHANGED <<waitingRooms, inProgress, activeCount, nextId,
                              players>> ]_vars

C25_Witness ==
    /\ mgrPc = "reply"
    /\ cmd.CommandType = "JoinSession"
    /\ response.Error = SessionFull
    /\ response.SessionId \in waitingRooms
    /\ activeCount < maxSessions

====
